---- MODULE Spec2Model ----
(***************************************************************************)
(* Italian text normalisation grammars of NeMo: the fraction verbalizer,   *)
(* the date verbalizer and the ordinal tagger.                             *)
(*                                                                         *)
(* A transducer is modelled as a parser: an operator that takes the input  *)
(* still to be read and returns the set of pairs <<output, rest>>, one per *)
(* path that consumes a prefix of that input.  A transducer maps a whole   *)
(* input s to the outputs of the paths whose rest is empty (Outputs).      *)
(* Strings are TLA+ strings; "\"" is the double quote.                     *)
(***************************************************************************)
EXTENDS Integers, Sequences, FiniteSets, TLC

\* deterministic: the mode flag the grammars were built with
\* call:   the grammar applied last ("none" before a call and after its return)
\* token:  the input of that call, with the parts it is made of
\* output: the output strings of that call
\* masc, fem: the outputs of graph_masc and graph_fem (FractionFst only)
VARIABLES deterministic, call, token, output, masc, fem

vars == <<deterministic, call, token, output, masc, fem>>

(***************************************************************************)
(* Bounds of the model.                                                    *)
(***************************************************************************)
\* longest run of white space between two fields of an input token
MaxPad == 2
\* largest number of trailing order-preservation markers on a date token
MaxMarkers == 1
\* largest number of millions among the digit-strings given to the ordinal grammar
MaxMillions == 2

(***************************************************************************)
(* Strings.                                                                *)
(***************************************************************************)
Prefix(s, n) == SubSeq(s, 1, n)

Suffix(s, n) == SubSeq(s, n + 1, Len(s))

At(s, i) == SubSeq(s, i, i)

StartsWith(s, p) == Len(s) >= Len(p) /\ SubSeq(s, 1, Len(p)) = p

EndsWith(s, p) == Len(s) >= Len(p) /\ SubSeq(s, Len(s) - Len(p) + 1, Len(s)) = p

\* p occurs in s starting at position i
OccursAt(s, p, i) == i >= 1 /\ i + Len(p) - 1 <= Len(s) /\ SubSeq(s, i, i + Len(p) - 1) = p

Contains(s, p) == \E i \in 1..Len(s) : OccursAt(s, p, i)

(***************************************************************************)
(* Character classes of en/graph_utils.                                    *)
(***************************************************************************)
NEMO_SPACE == " "

NEMO_WHITE_SPACE == {" ", "\t", "\n", "\r"}

\* NEMO_CHAR: the strings of exactly one character
NEMO_CHAR(c) == Len(c) = 1

NEMO_NOT_SPACE(c) == NEMO_CHAR(c) /\ c \notin NEMO_WHITE_SPACE

NEMO_NOT_QUOTE(c) == NEMO_CHAR(c) /\ c # "\""

\* length of the longest prefix of s made of white space
RECURSIVE WhiteRun(_)
WhiteRun(s) ==
    IF Len(s) > 0 /\ At(s, 1) \in NEMO_WHITE_SPACE THEN 1 + WhiteRun(Suffix(s, 1)) ELSE 0

\* length of the longest prefix of s without a double quote
RECURSIVE QuoteFreeRun(_)
QuoteFreeRun(s) ==
    IF Len(s) > 0 /\ NEMO_NOT_QUOTE(At(s, 1)) THEN 1 + QuoteFreeRun(Suffix(s, 1)) ELSE 0

(***************************************************************************)
(* The transducer algebra (pynini, pynutil).                               *)
(***************************************************************************)
\* pynini.accep(lit)
accep(lit, s) == IF StartsWith(s, lit) THEN {<<lit, Suffix(s, Len(lit))>>} ELSE {}

\* pynini.cross(a, b)
cross(a, b, s) == IF StartsWith(s, a) THEN {<<b, Suffix(s, Len(a))>>} ELSE {}

\* pynutil.delete(lit)
delete(lit, s) == cross(lit, "", s)

\* pynutil.insert(lit)
insert(lit, s) == {<<lit, s>>}

\* concatenation X + Y, X already applied to the input
Then(X, Y(_)) == UNION {{<<p[1] \o q[1], q[2]>> : q \in Y(p[2])} : p \in X}

\* pynini.closure(X, 0, 1), X already applied to the input s
Optional(X, s) == X \cup {<<"", s>>}

\* composition X @ f with f a rewrite applied to the whole output of X
Compose(X, f(_)) == {<<f(p[1]), p[2]>> : p \in X}

\* composition X @ pynini.cross(a, b): only the output a passes, as b
ComposeCross(X, a, b) == {<<b, p[2]>> : p \in {q \in X : q[1] = a}}

\* pynini.closure(NEMO_NOT_QUOTE, min)
NotQuoteClosure(min, s) == {<<Prefix(s, k), Suffix(s, k)>> : k \in min..QuoteFreeRun(s)}

\* the outputs of the paths that read the whole input
Outputs(X) == {p[1] : p \in {q \in X : q[2] = ""}}

(***************************************************************************)
(* pynini.cdrewrite(tau, l, r, NEMO_SIGMA): obligatory, left to right, the *)
(* longest match at each position.  tau is a set of pairs <<from, to>>     *)
(* (from not empty), Lctx(s, k) says that the left context ends at         *)
(* position k of s and Rctx(s, k) that the right context starts after k.   *)
(***************************************************************************)
cdrewrite(tau, Lctx(_, _), Rctx(_, _), s) ==
    LET Hits(i) == {t \in tau : /\ OccursAt(s, t[1], i)
                               /\ Lctx(s, i - 1)
                               /\ Rctx(s, i - 1 + Len(t[1]))}
        Longest(H) == CHOOSE t \in H : \A u \in H : Len(u[1]) <= Len(t[1])
        RECURSIVE scan(_)
        scan(i) == IF i > Len(s) THEN ""
                   ELSE IF Hits(i) = {} THEN At(s, i) \o scan(i + 1)
                   ELSE Longest(Hits(i))[2] \o scan(i + Len(Longest(Hits(i))[1]))
    IN scan(1)

AnyContext(s, k) == TRUE

BOS(s, k) == k = 0

EOS(s, k) == k = Len(s)

\* delete_space = pynutil.delete(pynini.closure(NEMO_WHITE_SPACE))
delete_space(s) == {<<"", Suffix(s, k)>> : k \in 0..WhiteRun(s)}

\* delete_extra_space = pynini.cross(pynini.closure(NEMO_WHITE_SPACE, 1), " ")
delete_extra_space(s) == {<<" ", Suffix(s, k)>> : k \in 1..WhiteRun(s)}

\* insert_space = pynutil.insert(" ")
insert_space(s) == insert(" ", s)

\* the non-empty runs of white space that occur in s, as deletions
WhiteRuns(s) ==
    {<<SubSeq(s, ij[1], ij[2]), "">> :
        ij \in {x \in (1..Len(s)) \X (1..Len(s)) :
                   /\ x[1] <= x[2]
                   /\ \A m \in x[1]..x[2] : At(s, m) \in NEMO_WHITE_SPACE}}

(***************************************************************************)
(* Shared linguistic utilities of it/graph_utils.                          *)
(***************************************************************************)
\* accents: the accented vowels and their plain forms
accents == {<<"à", "a">>, <<"è", "e">>, <<"é", "e">>, <<"ì", "i">>, <<"ò", "o">>, <<"ù", "u">>}

AccentMarks == {a[1] : a \in accents}

\* strip_accent(fst) = fst @ cdrewrite(accents, "", "", NEMO_SIGMA), on one output
strip_accent(t) == cdrewrite(accents, AnyContext, AnyContext, t)

\* a word follows position k of s: a space and then a character that is none
WordFollows(s, k) == k + 2 <= Len(s) /\ At(s, k + 1) = NEMO_SPACE /\ NEMO_NOT_SPACE(At(s, k + 2))

\* strip_cardinal_apocope(fst): the final vowel of "uno" falls before a following word
strip_cardinal_apocope(X) ==
    Compose(X, LAMBDA t : cdrewrite({<<"uno", "un">>}, AnyContext, WordFollows, t))

\* shift_cardinal_gender(fst): a final "uno" becomes "una"
shift_cardinal_gender(X) ==
    Compose(X, LAMBDA t : cdrewrite({<<"uno", "una">>}, AnyContext, EOS, t))

(***************************************************************************)
(* FractionFst (verbalizers/fraction.py).                                  *)
(***************************************************************************)
plural(s) == Then(delete("o", s), LAMBDA r : insert("i", r))

conjunction(s) == insert(" e ", s)

integer(s) ==
    Then(Then(delete("integer_part: \"", s),
              LAMBDA r : strip_cardinal_apocope(NotQuoteClosure(0, r))),
         LAMBDA r : delete("\"", r))

numerator_one(s) ==
    Then(Then(delete("numerator: \"", s), LAMBDA r : accep("un", r)),
         LAMBDA r : delete("\" ", r))

\* pynini.difference(pynini.closure(NEMO_NOT_QUOTE), "un")
numerator(s) ==
    Then(Then(delete("numerator: \"", s),
              LAMBDA r : {p \in NotQuoteClosure(0, r) : p[1] # "un"}),
         LAMBDA r : delete("\" ", r))

denominator_add_stem(s) ==
    Then(Then(delete("denominator: \"", s), LAMBDA r : NotQuoteClosure(0, r)),
         LAMBDA r : delete("\" morphosyntactic_features: \"add_root\"", r))

denominator_ordinal(s) ==
    Then(Then(delete("denominator: \"", s), LAMBDA r : NotQuoteClosure(0, r)),
         LAMBDA r : delete("\" morphosyntactic_features: \"ordinal\"", r))

denominator_cardinal(s) ==
    Then(Then(delete("denominator: \"", s), LAMBDA r : NotQuoteClosure(0, r)),
         LAMBDA r : delete("\"", r))

denominator_singular(s) == denominator_add_stem(s) \cup denominator_ordinal(s)

\* denominator_singular + plural: plural reads what follows the whole singular part
denominator_plural(s) == Then(denominator_singular(s), plural)

\* the right context pynini.difference(NEMO_CHAR, "parte"): a string of one
\* character that is not the string "parte", starting after position k
NotParte(s, k) ==
    \E n \in 1..(Len(s) - k) : NEMO_CHAR(SubSeq(s, k + 1, k + n)) /\ SubSeq(s, k + 1, k + n) # "parte"

\* merge: " e " becomes "i", then white space before the right context is deleted
merge(t) ==
    LET joined == cdrewrite({<<" e ", "i">>}, AnyContext, AnyContext, t)
    IN cdrewrite(WhiteRuns(joined), AnyContext, NotParte, joined)

delete_duplicates(t) == cdrewrite({<<"aa", "a">>, <<"oo", "o">>}, AnyContext, AnyContext, t)

\* left context (NEMO_SPACE | [BOS]) + closure(NEMO_NOT_SPACE), ending at position k
WordStartBefore(s, k) ==
    \E j \in 0..k : /\ (j = 0 \/ At(s, j) = NEMO_SPACE)
                    /\ \A m \in (j + 1)..k : NEMO_NOT_SPACE(At(s, m))

\* right context closure(NEMO_NOT_SPACE) + ("esimo" | "esima"), starting after position k
SuffixLaterInWord(s, k) ==
    \E j \in (k + 1)..Len(s) : /\ (OccursAt(s, "esimo", j) \/ OccursAt(s, "esima", j))
                                /\ \A m \in (k + 1)..(j - 1) : NEMO_NOT_SPACE(At(s, m))

\* remove_accents with "esimo" alone as the suffix of its right context
remove_accents_esimo_only(t) ==
    cdrewrite(accents, WordStartBefore,
              LAMBDA s, k : \E j \in (k + 1)..Len(s) :
                               /\ OccursAt(s, "esimo", j)
                               /\ \A m \in (k + 1)..(j - 1) : NEMO_NOT_SPACE(At(s, m)),
              t)


remove_accents(t) == cdrewrite(accents, WordStartBefore, SuffixLaterInWord, t)

merge_into_single_word(t) == delete_duplicates(remove_accents(merge(t)))

fraction_default(s) ==
    Then(Then(Then(numerator(s), delete_space), insert_space),
         LAMBDA r : Compose(denominator_plural(r), merge_into_single_word))

\* un_mezzo without its rewrite: the pair is left as it is
un_mezzo_kept(t) == t

\* "mezzo", not "un mezzo"
un_mezzo(t) == cdrewrite({<<"un mezzo", "mezzo">>}, AnyContext, AnyContext, t)

fraction_with_one(s) ==
    Compose(Then(Then(Then(numerator_one(s), delete_space), insert_space),
                 LAMBDA r : Compose(denominator_singular(r), merge_into_single_word)),
            un_mezzo)

fraction_with_cardinal(s) ==
    Then(Then(Then(strip_cardinal_apocope(numerator(s) \cup numerator_one(s)), delete_space),
              LAMBDA r : insert(" fratto ", r)),
         LAMBDA r : strip_cardinal_apocope(denominator_cardinal(r)))

fraction(s) == fraction_with_one(s) \cup fraction_default(s) \cup fraction_with_cardinal(s)

graph_masc(s) ==
    Then(Optional(Then(Then(integer(s), delete_space), conjunction), s), fraction)

integer_fem(s) == shift_cardinal_gender(integer(s))

\* fraction_default |= ... : the feminine alternative next to the masculine one
fraction_default_fem(s) ==
    fraction_default(s) \cup
    Then(Then(Then(shift_cardinal_gender(numerator(s)), delete_space), insert_space),
         LAMBDA r : ComposeCross(denominator_plural(r), "mezzo", "mezza"))

\* fraction_with_one |= ... : pynutil.delete(numerator_one) reads the numerator
\* field and writes nothing
fraction_with_one_fem(s) ==
    fraction_with_one(s) \cup
    Then(Then({<<"", p[2]>> : p \in numerator_one(s)}, delete_space),
         LAMBDA r : ComposeCross(denominator_singular(r), "mezzo", "mezza"))

fraction_fem(s) ==
    fraction_with_one_fem(s) \cup fraction_default_fem(s) \cup fraction_with_cardinal(s)

graph_fem(s) ==
    Then(Optional(Then(Then(integer_fem(s), delete_space), conjunction), s), fraction_fem)

\* self.graph = graph_masc | graph_fem
FractionGraph(s) == graph_masc(s) \cup graph_fem(s)

\* GraphFst.delete_tokens: name { ... }
delete_tokens(name, fst(_), s) ==
    Then(Then(Then(Then(Then(Then(delete(name, s), delete_space),
                             LAMBDA r : delete("{", r)),
                        delete_space),
                   fst),
              delete_space),
         LAMBDA r : delete("}", r))

\* self.fst of FractionFst
FractionFst(s) == delete_tokens("fraction", FractionGraph, s)

(***************************************************************************)
(* DateFst (verbalizers/date.py).                                          *)
(***************************************************************************)
day_cardinal(s) ==
    Then(Then(delete("day: \"", s), LAMBDA r : NotQuoteClosure(1, r)),
         LAMBDA r : delete("\"", r))

\* primero without [BOS] and [EOS]: every "uno" of the day text
primero_unanchored(t) == cdrewrite({<<"uno", "primo">>}, AnyContext, AnyContext, t)

\* "uno" -> "primo" between [BOS] and [EOS]: the day text as a whole
primero(t) == cdrewrite({<<"uno", "primo">>}, BOS, EOS, t)

day(det, s) ==
    IF det THEN Compose(strip_cardinal_apocope(day_cardinal(s)), primero)
    ELSE strip_cardinal_apocope(day_cardinal(s))
         \cup Compose(strip_cardinal_apocope(day_cardinal(s)), primero)

month(s) ==
    Then(Then(Then(Then(delete("month:", s), delete_space),
                   LAMBDA r : delete("\"", r)),
              LAMBDA r : NotQuoteClosure(1, r)),
         LAMBDA r : delete("\"", r))

year(s) ==
    Then(Then(Then(Then(Then(delete("year:", s), delete_space),
                        LAMBDA r : delete("\"", r)),
                   LAMBDA r : NotQuoteClosure(1, r)),
              delete_space),
         LAMBDA r : delete("\"", r))

\* day month year
graph_dmy(det, s) ==
    Then(Then(day(det, s),
              LAMBDA r : Optional(Then(delete_extra_space(r), month), r)),
         LAMBDA r : Optional(Then(delete_extra_space(r), year), r))

\* graph_mdy that asks for no marker in either mode
graph_mdy_unmarked(det, s) ==
    Then(Then(Then(month(s), LAMBDA r : accep(NEMO_SPACE, r)),
              LAMBDA r : day(det, r)),
         LAMBDA r : Optional(Then(accep(NEMO_SPACE, r), year), r))

\* month day year; in deterministic mode only with the marker
graph_mdy(det, s) ==
    LET mdy == Then(Then(Then(month(s), LAMBDA r : accep(NEMO_SPACE, r)),
                         LAMBDA r : day(det, r)),
                    LAMBDA r : Optional(Then(accep(NEMO_SPACE, r), year), r))
    IN IF det THEN Then(mdy, LAMBDA r : delete(" preserve_order: true", r)) ELSE mdy

\* self.graph = graph_dmy | graph_mdy
DateGraph(det, s) == graph_dmy(det, s) \cup graph_mdy(det, s)

\* delete_preserve_order: any number of markers
RECURSIVE delete_preserve_order(_)
delete_preserve_order(s) ==
    {<<"", s>>} \cup
    (IF StartsWith(s, " preserve_order: true")
     THEN delete_preserve_order(Suffix(s, Len(" preserve_order: true")))
     ELSE {})

final_graph(det, s) == Then(DateGraph(det, s), delete_preserve_order)

\* self.fst of DateFst
DateFst(det, s) == delete_tokens("date", LAMBDA r : final_graph(det, r), s)

(***************************************************************************)
(* The cardinal grammar consumed by OrdinalFst: digit-string to cardinal   *)
(* text, the thousands, hundreds and tens each a word of their own and the *)
(* unit joined to its ten, which is the text the ordinal tables read.      *)
(***************************************************************************)
Digits == <<"0", "1", "2", "3", "4", "5", "6", "7", "8", "9">>

IsDigit(c) == \E d \in 1..10 : Digits[d] = c

DigitValue(c) == (CHOOSE d \in 1..10 : Digits[d] = c) - 1

\* length of the longest prefix of s made of digits
RECURSIVE DigitRun(_)
DigitRun(s) == IF Len(s) > 0 /\ IsDigit(At(s, 1)) THEN 1 + DigitRun(Suffix(s, 1)) ELSE 0

\* the value of a digit-string
RECURSIVE ToNat(_)
ToNat(s) == IF s = "" THEN 0 ELSE 10 * ToNat(Prefix(s, Len(s) - 1)) + DigitValue(At(s, Len(s)))

\* the digit-string of a number
RECURSIVE ToDigits(_)
ToDigits(n) == IF n < 10 THEN Digits[n + 1] ELSE ToDigits(n \div 10) \o Digits[(n % 10) + 1]

UnitWord == <<"uno", "due", "tre", "quattro", "cinque", "sei", "sette", "otto", "nove">>

TeenWord == <<"dieci", "undici", "dodici", "tredici", "quattordici", "quindici", "sedici",
              "diciassette", "diciotto", "diciannove">>

TwentyWord == <<"venti", "ventuno", "ventidue", "ventitré", "ventiquattro", "venticinque",
                "ventisei", "ventisette", "ventotto", "ventinove">>

TenWord == <<"trenta", "quaranta", "cinquanta", "sessanta", "settanta", "ottanta", "novanta">>

\* 1..99
CardinalTens(n) ==
    IF n < 10 THEN UnitWord[n]
    ELSE IF n < 20 THEN TeenWord[n - 9]
    ELSE IF n < 30 THEN TwentyWord[n - 19]
    ELSE IF n % 10 = 0 THEN TenWord[(n \div 10) - 2]
    ELSE TenWord[(n \div 10) - 2] \o UnitWord[n % 10]

\* 1..999
CardinalHundreds(n) ==
    LET h == n \div 100
        r == n % 100
        hw == IF h = 1 THEN "cento" ELSE UnitWord[h] \o "cento"
    IN IF h = 0 THEN CardinalTens(r)
       ELSE IF r = 0 THEN hw
       ELSE hw \o " " \o CardinalTens(r)

\* 1..999,999
CardinalThousands(n) ==
    LET p == n \div 1000
        r == n % 1000
        pw == IF p = 1 THEN "mille" ELSE CardinalHundreds(p) \o " mille"
    IN IF p = 0 THEN CardinalHundreds(r)
       ELSE IF r = 0 THEN pw
       ELSE pw \o " " \o CardinalHundreds(r)

\* 0..999,999,999
CardinalText(n) ==
    LET m == n \div 1000000
        r == n % 1000000
        mw == IF m = 1 THEN "un milione" ELSE CardinalHundreds(m) \o " milioni"
    IN IF n = 0 THEN "zero"
       ELSE IF m = 0 THEN CardinalThousands(r)
       ELSE IF r = 0 THEN mw
       ELSE mw \o " " \o CardinalThousands(r)

\* cardinal.graph: reads a digit-string without leading zero, writes its text
cardinal_graph(s) ==
    {<<CardinalText(ToNat(Prefix(s, k))), Suffix(s, k)>> :
        k \in {j \in 1..DigitRun(s) : (j = 1 \/ At(s, 1) # "0") /\ j <= 9}}

(***************************************************************************)
(* The ordinal tables data/ordinals/*.tsv, inverted: cardinal word to      *)
(* ordinal word.                                                           *)
(***************************************************************************)
digit == {<<"uno", "primo">>, <<"due", "secondo">>, <<"tre", "terzo">>, <<"otto", "ottavo">>}

teens == {<<"dieci", "decimo">>, <<"undici", "undicesimo">>, <<"dodici", "decimosecondo">>,
          <<"tredici", "decimoterzo">>, <<"diciotto", "decimoottavo">>}

twenties == {<<"ventuno", "ventesimoprimo">>, <<"ventidue", "ventesimosecondo">>,
             <<"ventitré", "ventesimoterzo">>, <<"ventotto", "ventesimoottavo">>}

ties == {<<"venti", "ventesimo">>, <<"trenta", "trentesimo">>}

hundreds == {<<"cento", "centesimo">>, <<"duecento", "duecentesimo">>}

\* a table as a transducer: reads one of its cardinal words, writes the ordinal word
Table(T, s) == {<<p[2], Suffix(s, Len(p[1]))>> : p \in {q \in T : StartsWith(s, q[1])}}

\* composition X @ G with G a transducer: G maps the whole output of X
ComposeWith(X, G(_)) == UNION {{<<o, p[2]>> : o \in Outputs(G(p[1]))} : p \in X}

(***************************************************************************)
(* OrdinalFst (taggers/ordinal.py).                                        *)
(***************************************************************************)
\* get_one_to_one_thousand: the cardinal texts of range(1, 1000), as an acceptor
get_one_to_one_thousand ==
    UNION {Outputs(cardinal_graph(ToDigits(n))) : n \in 1..999}

one_to_one_thousand(s) ==
    {<<c, Suffix(s, Len(c))>> : c \in {x \in get_one_to_one_thousand : StartsWith(s, x)}}

graph_digit(s) == Table(digit, s)

graph_teens(s) == Table(teens, s)

graph_ties(s) == Table(ties, s)

graph_twenties(s) == Table(twenties, s)

graph_hundreds(s) == Table(hundreds, s)

graph_tens_component(s) ==
    graph_teens(s)
    \cup Then(graph_ties(s), LAMBDA r : Optional(graph_digit(r), r))
    \cup graph_twenties(s)

graph_hundred_component(s) ==
    Then(graph_hundreds(s),
         LAMBDA r : Optional(Then(accep(NEMO_SPACE, r),
                                  LAMBDA q : graph_tens_component(q) \cup graph_digit(q)), r))
    \cup graph_tens_component(s)
    \cup graph_digit(s)

\* thousands that reads the millions too
thousands_and_millions(s) ==
    cross("mille", "millesimo", s) \cup cross("milioni", "milionesimo", s)


thousands(s) == cross("mille", "millesimo", s)

\* cdrewrite(delete_space, "", "millesimo", NEMO_SIGMA): merge as a prefix
merge_as_prefix(t) ==
    cdrewrite(WhiteRuns(t), AnyContext, LAMBDA u, k : OccursAt(u, "millesimo", k + 1), t)

\* the thousands series; not deterministic: the prefix may also stay a word of its own
graph_thousands(det, s) ==
    LET prefixed == Compose(Then(Then(Compose(one_to_one_thousand(s), strip_accent),
                                      LAMBDA r : accep(NEMO_SPACE, r)),
                                 thousands),
                            merge_as_prefix)
        boundary == Then(Then(ComposeWith(one_to_one_thousand(s), graph_hundred_component),
                              LAMBDA r : accep(NEMO_SPACE, r)),
                         thousands)
        series == prefixed \cup thousands(s) \cup (IF det THEN {} ELSE boundary)
    IN Then(series,
            LAMBDA r : Optional(Then(accep(NEMO_SPACE, r), graph_hundred_component), r))

\* The 10's and 20's series can also be two words
split_words(t) ==
    cdrewrite({<<"decimo", "decimo ">>, <<"ventesimo", "ventesimo ">>},
              AnyContext, LAMBDA u, k : k < Len(u), t)

\* the split spelling as a replacement: ordinal_graph = ordinal_graph @ split_words
only_split_words(X) == Compose(X, split_words)

\* ordinal_graph |= ordinal_graph @ split_words
with_split_words(X) == X \cup Compose(X, split_words)

\* the "o" before "ottavo" is deleted
ottavo(t) == cdrewrite({<<"o", "">>}, AnyContext, LAMBDA u, k : OccursAt(u, "ottavo", k + 1), t)

\* self.graph of OrdinalFst: digit-string to ordinal text
ordinal_graph(det, s) ==
    LET composed == ComposeWith(cardinal_graph(s),
                                LAMBDA c : graph_thousands(det, c) \cup graph_hundred_component(c))
    IN Compose(IF det THEN composed ELSE with_split_words(composed), ottavo)

\* delete_period that requires the period
delete_period_required(s) == delete(".", s)


delete_period(s) == Optional(delete(".", s), s)

\* the superscript pair "er" of the apocope abbreviation, in the characters a
\* module can hold
SUPERSCRIPT_ER == "er"

accept_masc(s) == Then(delete_period(s), LAMBDA r : cross("º", "gender_masc", r))

accep_fem(s) == Then(delete_period(s), LAMBDA r : cross("ª", "gender_fem", r))

accep_apocope(s) == Then(delete_period(s), LAMBDA r : cross(SUPERSCRIPT_ER, "apocope", r))

convert_abbreviation(s) == accept_masc(s) \cup accep_fem(s) \cup accep_apocope(s)

graph(det, s) ==
    Then(Then(Then(Then(Then(insert("integer: \"", s),
                             LAMBDA r : ordinal_graph(det, r)),
                        LAMBDA r : insert("\"", r)),
                   LAMBDA r : insert(" morphosyntactic_features: \"", r)),
              convert_abbreviation),
         LAMBDA r : insert("\"", r))

\* GraphFst.add_tokens: name { ... }
add_tokens(name, fst(_), s) ==
    Then(Then(insert(name \o " { ", s), fst), LAMBDA r : insert(" }", r))

\* self.fst of OrdinalFst
OrdinalFst(det, s) == add_tokens("ordinal", LAMBDA r : graph(det, r), s)

(***************************************************************************)
(* The inputs.                                                             *)
(***************************************************************************)
Quoted(x) == "\"" \o x \o "\""

RECURSIVE Spaces(_)
Spaces(n) == IF n = 0 THEN "" ELSE " " \o Spaces(n - 1)

Pads == 1..MaxPad

\* fraction { integer_part: "I" numerator: "N" denominator: "D" morphosyntactic_features: "F" }
FractionBody(tok) ==
    (IF tok.integer = "" THEN ""
     ELSE "integer_part: " \o Quoted(tok.integer) \o Spaces(tok.pad))
    \o "numerator: " \o Quoted(tok.numerator) \o Spaces(tok.pad)
    \o "denominator: " \o Quoted(tok.denominator)
    \o (IF tok.features = "" THEN ""
        ELSE " morphosyntactic_features: " \o Quoted(tok.features))
    \o tok.stray

FractionTokens ==
    {[integer |-> i, numerator |-> n, denominator |-> d, features |-> f, stray |-> x, pad |-> p] :
        i \in {"", "due", "uno"},
        n \in {"un", "tre"},
        d \in {"mezzo", "terzo", "quinto", "quint", "centesima parte"},
        f \in {"ordinal", "add_root", ""},
        x \in {"", "o"},
        p \in Pads}

RECURSIVE Markers(_)
Markers(n) == IF n = 0 THEN "" ELSE " preserve_order: true" \o Markers(n - 1)

\* date { day: "D" month: "M" year: "Y" } and date { month: "M" day: "D" year: "Y" }
DateBody(tok) ==
    LET d == "day: " \o Quoted(tok.day)
        m == "month: " \o Quoted(tok.month)
        y == IF tok.year = "" THEN "" ELSE Spaces(tok.pad) \o "year: " \o Quoted(tok.year)
    IN (IF tok.order = "mdy" THEN m \o Spaces(tok.pad) \o d
        ELSE IF tok.month = "" THEN d
        ELSE d \o Spaces(tok.pad) \o m)
       \o y \o Markers(tok.markers)

DateTokens ==
    {tok \in [order : {"dmy", "mdy"},
              day : {"uno", "due", "ventuno", "trentuno"},
              month : {"", "maggio"},
              year : {"", "duemila", "duemila ", "del novanta"},
              markers : 0..MaxMarkers,
              pad : Pads] :
        tok.order = "mdy" => tok.month # ""}

\* the numbers below one thousand written with the digits of the tables
SmallNumbers == {h * 100 + t * 10 + u : h \in 0..2, t \in 0..2, u \in {0, 1, 2, 3, 8}} \cup {30, 32}

\* in range: 1..999,999; out of range: 0 and the millions
OrdinalNumbers ==
    SmallNumbers
    \cup {p * 1000 + r : p \in {1, 2, 12, 23, 120}, r \in {0, 1, 18, 120}}
    \cup {m * 1000000 + r : m \in 1..MaxMillions, r \in {0, 1, 1000}}

Abbreviations == {"º", "ª", SUPERSCRIPT_ER}

\* a digit-string, then a period or none, an abbreviation or none, a period or none
WrittenNumbers ==
    {0, 1, 18, 21, 23, 120, 1000, 2018, 23000}
    \cup {m * 1000000 : m \in 1..MaxMillions}

OrdinalTexts ==
    {[number |-> n, before |-> b, abbreviation |-> a, after |-> c] :
        n \in WrittenNumbers, b \in {"", "."}, a \in Abbreviations \cup {""}, c \in {"", "."}}

OrdinalText(tok) == ToDigits(tok.number) \o tok.before \o tok.abbreviation \o tok.after

\* denominators of several words
Denominators ==
    {[first |-> a, joint |-> j, second |-> b, suffix |-> x, classifier |-> c] :
        a \in {"trenta", "ventitré", "cento"},
        j \in {" e ", " "},
        b \in {"due", "otto", "tré", "zoo otto"},
        x \in {"", " esimo", " esima"},
        c \in {"", " parte"}}

DenominatorText(tok) == tok.first \o tok.joint \o tok.second \o tok.suffix \o tok.classifier

(***************************************************************************)
(* The state machine: the grammars are built once, with deterministic      *)
(* fixed; each call applies one grammar to one input and returns.          *)
(***************************************************************************)
Init ==
    /\ deterministic \in BOOLEAN
    /\ call = "none"
    /\ token = [text |-> ""]
    /\ output = {}
    /\ masc = {}
    /\ fem = {}

\* FractionFst.fst on a fraction token; graph_masc and graph_fem on its body
VerbalizeFraction ==
    /\ call = "none"
    /\ \E tok \in FractionTokens :
          LET body == FractionBody(tok)
              text == "fraction { " \o body \o " }"
          IN /\ token' = tok @@ [text |-> text, body |-> body]
             /\ output' = Outputs(FractionFst(text))
             /\ masc' = Outputs(graph_masc(body))
             /\ fem' = Outputs(graph_fem(body))
    /\ call' = "fraction"
    /\ UNCHANGED deterministic

\* DateFst.fst on a date token
VerbalizeDate ==
    /\ call = "none"
    /\ \E tok \in DateTokens :
          LET text == "date { " \o DateBody(tok) \o " }"
          IN /\ token' = tok @@ [text |-> text]
             /\ output' = Outputs(DateFst(deterministic, text))
    /\ call' = "date"
    /\ UNCHANGED <<deterministic, masc, fem>>

\* OrdinalFst.fst on a written ordinal
ClassifyOrdinal ==
    /\ call = "none"
    /\ \E tok \in OrdinalTexts :
          /\ token' = tok @@ [text |-> OrdinalText(tok)]
          /\ output' = Outputs(OrdinalFst(deterministic, OrdinalText(tok)))
    /\ call' = "ordinal"
    /\ UNCHANGED <<deterministic, masc, fem>>

\* OrdinalFst.graph on a digit-string
ApplyOrdinalGraph ==
    /\ call = "none"
    /\ \E n \in OrdinalNumbers :
          /\ token' = [number |-> n, text |-> ToDigits(n)]
          /\ output' = Outputs(ordinal_graph(deterministic, ToDigits(n)))
    /\ call' = "ordinal_graph"
    /\ UNCHANGED <<deterministic, masc, fem>>

\* merge_into_single_word on a denominator
MergeDenominator ==
    /\ call = "none"
    /\ \E tok \in Denominators :
          /\ token' = tok @@ [text |-> DenominatorText(tok)]
          /\ output' = {merge_into_single_word(DenominatorText(tok))}
    /\ call' = "merge"
    /\ UNCHANGED <<deterministic, masc, fem>>

\* the call returns; the grammars keep no state
Return ==
    /\ call # "none"
    /\ call' = "none"
    /\ token' = [text |-> ""]
    /\ output' = {}
    /\ masc' = {}
    /\ fem' = {}
    /\ UNCHANGED deterministic

Next ==
    \/ VerbalizeFraction
    \/ VerbalizeDate
    \/ ClassifyOrdinal
    \/ ApplyOrdinalGraph
    \/ MergeDenominator
    \/ Return

Spec == Init /\ [][Next]_vars

(***************************************************************************)
(* Properties.                                                             *)
(***************************************************************************)
AllWhite(s) == \A i \in 1..Len(s) : At(s, i) \in NEMO_WHITE_SPACE

\* a year text with some or all of its trailing white space dropped
YearForms(y) == {Prefix(y, k) : k \in {j \in 1..Len(y) : AllWhite(Suffix(y, j))}}

\* the date texts of a token whose day is written d, in the order of its fields
DateTexts(tok, d) ==
    LET years == IF tok.year = "" THEN {""} ELSE {" " \o y : y \in YearForms(tok.year)}
    IN {(IF tok.order = "mdy" THEN tok.month \o " " \o d
         ELSE IF tok.month = "" THEN d
         ELSE d \o " " \o tok.month) \o y : y \in years}

FeatureOf(a) ==
    IF a = "º" THEN "gender_masc" ELSE IF a = "ª" THEN "gender_fem" ELSE "apocope"

\* the tagged outputs of a written ordinal: one per ordinal text of its digit-string
Tagged(tok) ==
    {"ordinal { integer: " \o Quoted(o) \o " morphosyntactic_features: "
        \o Quoted(FeatureOf(tok.abbreviation)) \o " }" :
        o \in Outputs(ordinal_graph(deterministic, ToDigits(tok.number)))}

AccentPositions(o) == {i \in 1..Len(o) : At(o, i) \in AccentMarks}

SuffixAfter(o, i) ==
    \E j \in (i + 1)..Len(o) : OccursAt(o, "esimo", j) \/ OccursAt(o, "esima", j)

\* the denominator as one word, without its accents
Plain(text) == strip_accent(merge(text))

FeatureTagged == {"ordinal", "add_root"}

\* C1: in deterministic mode FractionFst.fst and DateFst.fst emit exactly one
\* output string for every token they accept.
C1_SingleOutput ==
    (deterministic /\ call \in {"fraction", "date"} /\ output # {})
        => Cardinality(output) = 1

\* C2: for a numerator N other than "un" and a feature-tagged denominator D that
\* ends in "o", graph_masc accepts the token and emits N, one space and D with
\* its final "o" replaced by "i", and never the singular D.
C2_PluralDenominator ==
    (/\ call = "fraction"
     /\ token.integer = ""
     /\ token.numerator # "un"
     /\ token.features \in FeatureTagged
     /\ token.stray = ""
     /\ EndsWith(token.denominator, "o"))
        => masc = {token.numerator \o " "
                      \o Prefix(token.denominator, Len(token.denominator) - 1) \o "i"}

\* C3: numerator "un" with the feature-tagged denominator "mezzo" and no integer
\* part: graph_masc emits "mezzo", graph_fem emits "mezza", and no graph nor
\* the fst emits a text with "un mezzo".
C3_Half ==
    (/\ call = "fraction"
     /\ token.integer = ""
     /\ token.numerator = "un"
     /\ token.denominator = "mezzo"
     /\ token.features \in FeatureTagged
     /\ token.stray = "")
        => /\ masc = {"mezzo"}
           /\ "mezza" \in fem
           /\ "mezza" \in output
           /\ \A o \in masc \cup fem \cup output : ~Contains(o, "un mezzo")

C3_Witness ==
    /\ call = "fraction"
    /\ token.integer = ""
    /\ token.numerator = "un"
    /\ token.denominator = "mezzo"
    /\ token.features = "ordinal"
    /\ token.stray = ""
    /\ masc = {"mezzo"}
    /\ "mezza" \in fem

\* C4: in deterministic mode a month-day-year token is accepted only with the
\* marker " preserve_order: true" and has no output without it; a day-month-year
\* token without the marker is accepted and verbalized in day-month-year order;
\* in non-deterministic mode month-day-year is accepted without the marker.
C4_Order ==
    call = "date" =>
        LET forms == DateTexts(token, token.day) \cup DateTexts(token, "primo")
        IN /\ (deterministic /\ token.order = "mdy" /\ token.markers = 0) => output = {}
           /\ (deterministic /\ token.order = "mdy" /\ token.markers >= 1 /\ token.pad = 1)
                 => (output # {} /\ output \subseteq forms)
           /\ (token.order = "dmy" /\ token.markers = 0)
                 => (output # {} /\ output \subseteq forms)
           /\ (~deterministic /\ token.order = "mdy" /\ token.markers = 0 /\ token.pad = 1)
                 => (output # {} /\ output \subseteq forms)

C4_Witness ==
    /\ call = "date"
    /\ deterministic
    /\ token.order = "mdy"
    /\ token.day = "due"
    /\ token.year = "duemila"
    /\ token.markers = 1
    /\ output = {"maggio due duemila"}

\* C5 as stated: in deterministic mode the day "uno" becomes "primo" and every
\* occurrence of "uno" in a day value is covered, so no date text keeps an
\* "uno"; in non-deterministic mode the day "uno" gives both spellings.
C5_EveryOccurrence ==
    (call = "date" /\ output # {}) =>
        /\ deterministic => \A o \in output : ~Contains(o, "uno")
        /\ (deterministic /\ token.day = "uno") => output \subseteq DateTexts(token, "primo")
        /\ (~deterministic /\ token.day = "uno")
              => /\ output \cap DateTexts(token, "uno") # {}
                 /\ output \cap DateTexts(token, "primo") # {}

\* C5 amended: in deterministic mode the day that is exactly "uno" becomes
\* "primo" and is never emitted as "uno"; in non-deterministic mode it gives
\* both spellings; any other day, also one that contains "uno", is emitted as
\* it is written.
C5_FirstDay ==
    (call = "date" /\ output # {}) =>
        /\ (deterministic /\ token.day = "uno") => output \subseteq DateTexts(token, "primo")
        /\ deterministic => output \cap DateTexts(token, "uno") = {}
        /\ (~deterministic /\ token.day = "uno")
              => /\ output \cap DateTexts(token, "uno") # {}
                 /\ output \cap DateTexts(token, "primo") # {}
                 /\ output \subseteq DateTexts(token, "uno") \cup DateTexts(token, "primo")
        /\ token.day # "uno" => output \subseteq DateTexts(token, token.day)

C5_Witness ==
    /\ call = "date"
    /\ deterministic
    /\ token.order = "dmy"
    /\ token.day = "trentuno"
    /\ token.month = "maggio"
    /\ token.year = ""
    /\ output = {"trentuno maggio"}

\* C6 as stated: the abbreviation follows the digit-string and may be followed
\* by a period; with and without that period the output is the same tagged
\* token; an input without abbreviation is rejected.
C6_PeriodAfter ==
    call = "ordinal" =>
        /\ token.abbreviation = "" => output = {}
        /\ (token.abbreviation # "" /\ token.before = "") => output = Tagged(token)

\* C6 amended: the abbreviation may be preceded by a period; with and without
\* that period the output is the same tagged token; an input without
\* abbreviation, or with a period after the abbreviation, is rejected.
C6_PeriodBefore ==
    call = "ordinal" =>
        /\ token.abbreviation = "" => output = {}
        /\ (token.abbreviation # "" /\ token.after = "") => output = Tagged(token)
        /\ token.after = "." => output = {}

C6_Witness ==
    /\ call = "ordinal"
    /\ token.number = 21
    /\ token.before = "."
    /\ token.abbreviation = "º"
    /\ token.after = ""
    /\ output = {"ordinal { integer: \"ventesimoprimo\" morphosyntactic_features: \"gender_masc\" }"}

\* C7: a digit-string outside 1..999,999 has no output, in either mode: the
\* result is the empty set.
C7_OutOfRange ==
    (/\ call \in {"ordinal_graph", "ordinal"}
     /\ (token.number = 0 \/ token.number >= 1000000))
        => output = {}

C7_Witness ==
    /\ call = "ordinal_graph"
    /\ ~deterministic
    /\ token.number = 2000000
    /\ output = {}

\* C8: for every digit-string the outputs of the non-deterministic graph are a
\* finite set that includes the outputs of the deterministic graph.
C8_Superset ==
    (call = "ordinal_graph" /\ ~deterministic)
        => /\ IsFiniteSet(output)
           /\ Outputs(ordinal_graph(TRUE, token.text)) \subseteq output

C8_Witness ==
    /\ call = "ordinal_graph"
    /\ ~deterministic
    /\ token.number = 2018
    /\ output = {"duemillesimo decimottavo", "duemillesimo decimo ottavo",
                 "secondo millesimo decimottavo", "secondo millesimo decimo ottavo"}

C10_SpaceBeforeParte ==
    (call = "merge" /\ token.classifier = " parte") =>
        \A o \in output :
            /\ EndsWith(o, " parte")
            /\ ~Contains(Prefix(o, Len(o) - Len(" parte")), " ")
====
